---------------------------- MODULE Spec2Model ----------------------------
(***************************************************************************)
(* A model of the data access layer of codices (src/kuzu_DAL.py): the      *)
(* class CategoryDAL over one Kuzu connection.                             *)
(*                                                                         *)
(* The graph store is the record db: one field per node table (a function  *)
(* from the SERIAL primary key to the node's properties) and one field per *)
(* relationship table of initialize_schema (a set of edges, or a bag of    *)
(* edges where the code can create the same edge twice).  Every method of  *)
(* CategoryDAL that writes is an action; every method that only reads is   *)
(* an operator over db.  A query whose row order the code does not fix     *)
(* (no ORDER BY) and of which the code takes the first row is modelled as  *)
(* the set of rows it may take.                                            *)
(*                                                                         *)
(* Descriptions are modelled for Category only; the description of the     *)
(* other node kinds is stored and updated by the same statements and is    *)
(* read by no check.  Lists are modelled by their rows; ORDER BY is not.   *)
(***************************************************************************)
EXTENDS Integers, FiniteSets, Sequences, TLC

VARIABLES db, snap, transaction_active, begun, last, writers

vars == <<db, snap, transaction_active, begun, last, writers>>

(***************************************************************************)
(* Bounds of the model.                                                    *)
(***************************************************************************)
MaxEntities == 4
MaxCopies == 1
MaxTxEntities == 3
MaxNew == 1
MaxComponents == 2

Names == {"a", "b"}

(***************************************************************************)
(* Bags of edges: a function from the edge to its number of copies.        *)
(***************************************************************************)
EmptyBag == [e \in {} |-> 0]

BagAdd(B, e) ==
    [x \in DOMAIN B \cup {e} |-> IF x \in DOMAIN B
                                   THEN (IF x = e THEN B[x] + 1 ELSE B[x])
                                   ELSE 1]

BagKeep(B, S) == [x \in DOMAIN B \cap S |-> B[x]]

Copies(B, e) == IF e \in DOMAIN B THEN B[e] ELSE 0

FcnAdd(f, k, v) == [x \in DOMAIN f \cup {k} |-> IF x = k THEN v ELSE f[x]]

FcnDrop(f, S) == [x \in DOMAIN f \ S |-> f[x]]

(***************************************************************************)
(* initialize_schema: the empty store.  serial holds the next value of     *)
(* each node table's SERIAL primary key.                                   *)
(***************************************************************************)
EmptyDb ==
    [ Category |-> [x \in {} |-> [name |-> "a", description |-> ""]],
      Object |-> [x \in {} |-> [name |-> "a"]],
      Morphism |-> [x \in {} |-> [name |-> "a", is_identity |-> FALSE]],
      Functor |-> [x \in {} |-> [name |-> "a"]],
      Natural_Transformation |-> [x \in {} |-> [name |-> "a"]],
      morphism_source |-> {},
      morphism_target |-> {},
      functor_source |-> {},
      functor_target |-> {},
      category_objects |-> {},
      category_morphisms |-> {},
      functor_object_map |-> EmptyBag,
      functor_morphism_map |-> EmptyBag,
      nat_trans_source |-> {},
      nat_trans_target |-> {},
      nat_trans_components |-> EmptyBag,
      serial |-> [Category |-> 0, Object |-> 0, Morphism |-> 0,
                  Functor |-> 0, Natural_Transformation |-> 0] ]

(* The stored entities and edges, without the key generators. *)
Store(d) == [d EXCEPT !.serial = EmptyDb.serial]

(***************************************************************************)
(* initialize_schema on any store: every CREATE ... TABLE IF NOT EXISTS    *)
(* creates its table, empty, unless the store has a table of that name,    *)
(* which it leaves as it is.  The table Datatype, which CategoryDAL never  *)
(* reads or writes, is left out.  Unprovisioned is the store of a new      *)
(* database directory.                                                     *)
(***************************************************************************)
NodeTables == DOMAIN EmptyDb.serial

Unprovisioned == [serial |-> [k \in {} |-> 0]]

(* Faulty variant: the tables are created anew. *)
initialize_schema_anew(d) == [res |-> "ok", ret |-> {}, db |-> EmptyDb]

initialize_schema(d) ==
    [res |-> "ok", ret |-> {},
     db |-> [t \in DOMAIN d \cup DOMAIN EmptyDb |->
               IF t = "serial"
                  THEN [k \in NodeTables |->
                           IF k \in DOMAIN d.serial THEN d.serial[k] ELSE 0]
                  ELSE IF t \in DOMAIN d THEN d[t] ELSE EmptyDb[t]]]

(***************************************************************************)
(* The read methods.                                                       *)
(***************************************************************************)
CategoryRow(d, c) ==
    [ID |-> c, name |-> d.Category[c].name, description |-> d.Category[c].description]

ObjectRow(d, o) == [ID |-> o, name |-> d.Object[o].name]

(* Faulty variant: the WHERE clause is lost. *)
get_category_any(d, category_id) ==
    {CategoryRow(d, c) : c \in DOMAIN d.Category}

(* The rows; None is the empty set of rows. *)
get_category(d, category_id) ==
    {CategoryRow(d, c) : c \in {x \in DOMAIN d.Category : x = category_id}}

list_categories(d) == {CategoryRow(d, c) : c \in DOMAIN d.Category}

get_object(d, object_id) ==
    {ObjectRow(d, o) : o \in {x \in DOMAIN d.Object : x = object_id}}

(* MATCH (c:Category)-[:category_objects]->(o:Object) WHERE c.ID = $id *)
ObjectsOf(d, category_id) ==
    {o \in DOMAIN d.Object :
        category_id \in DOMAIN d.Category /\ <<category_id, o>> \in d.category_objects}

(* Faulty variant: the listing forgets the category. *)
get_objects_in_category_unscoped(d, category_id) ==
    {ObjectRow(d, o) : o \in DOMAIN d.Object}

get_objects_in_category(d, category_id) ==
    {ObjectRow(d, o) : o \in ObjectsOf(d, category_id)}

(* MATCH (c:Category)-[:category_morphisms]->(m:Morphism) WHERE c.ID = $id *)
MorphismsOf(d, category_id) ==
    {m \in DOMAIN d.Morphism :
        category_id \in DOMAIN d.Category /\ <<category_id, m>> \in d.category_morphisms}

(* The nodes at the other end of a morphism's or an entity's edges. *)
SourceOf(d, m) == {e[2] : e \in {x \in d.morphism_source : x[1] = m}}

TargetOf(d, m) == {e[2] : e \in {x \in d.morphism_target : x[1] = m}}

OwnerOfMorphism(d, m) == {e[1] : e \in {x \in d.category_morphisms : x[2] = m}}

OwnerOfObject(d, o) == {e[1] : e \in {x \in d.category_objects : x[2] = o}}

(* OPTIONAL MATCH (m)-[:morphism_source]->(s:Object): the rows of s.name *)
SourceNames(d, m) == {d.Object[e[2]].name : e \in {x \in d.morphism_source : x[1] = m}}

TargetNames(d, m) == {d.Object[e[2]].name : e \in {x \in d.morphism_target : x[1] = m}}

get_morphisms_in_category(d, category_id) ==
    { [ID |-> m, name |-> d.Morphism[m].name, is_identity |-> d.Morphism[m].is_identity,
       source_object |-> SourceNames(d, m), target_object |-> TargetNames(d, m)] :
         m \in MorphismsOf(d, category_id) }

(***************************************************************************)
(* DETACH DELETE of a set of nodes: the nodes and every edge at them.      *)
(***************************************************************************)
DetachDeleteMorphisms(d, M) ==
    [d EXCEPT
       !.Morphism = FcnDrop(@, M),
       !.category_morphisms = {e \in @ : e[2] \notin M},
       !.morphism_source = {e \in @ : e[1] \notin M},
       !.morphism_target = {e \in @ : e[1] \notin M},
       !.functor_morphism_map = BagKeep(@, {e \in DOMAIN @ : e[1] \notin M /\ e[2] \notin M}),
       !.nat_trans_components = BagKeep(@, {e \in DOMAIN @ : e[2] \notin M})]

(* Faulty variant: the mapping edges at the objects are left behind. *)
DetachDeleteObjects_keeps_mappings(d, O) ==
    [d EXCEPT
       !.Object = FcnDrop(@, O),
       !.category_objects = {e \in @ : e[2] \notin O},
       !.morphism_source = {e \in @ : e[2] \notin O},
       !.morphism_target = {e \in @ : e[2] \notin O}]

DetachDeleteObjects(d, O) ==
    [d EXCEPT
       !.Object = FcnDrop(@, O),
       !.category_objects = {e \in @ : e[2] \notin O},
       !.morphism_source = {e \in @ : e[2] \notin O},
       !.morphism_target = {e \in @ : e[2] \notin O},
       !.functor_object_map = BagKeep(@, {e \in DOMAIN @ : e[1] \notin O /\ e[2] \notin O})]

DetachDeleteCategories(d, C) ==
    [d EXCEPT
       !.Category = FcnDrop(@, C),
       !.category_objects = {e \in @ : e[1] \notin C},
       !.category_morphisms = {e \in @ : e[1] \notin C},
       !.functor_source = {e \in @ : e[2] \notin C},
       !.functor_target = {e \in @ : e[2] \notin C}]

(***************************************************************************)
(* What a method hands back: res is "ok" or the exception raised, ret the  *)
(* value returned, db the store the connection sees afterwards.            *)
(***************************************************************************)
Result(res, ret, d) == [res |-> res, ret |-> ret, db |-> d]

(***************************************************************************)
(* Category operations.                                                    *)
(***************************************************************************)
(* Faulty variant: the scan for the name is skipped. *)
create_category_unchecked(d, name, description) ==
    LET category_id == d.serial.Category IN
    Result("ok", {category_id},
           [d EXCEPT
              !.Category = FcnAdd(@, category_id,
                                  [name |-> name, description |-> description]),
              !.serial.Category = @ + 1])

create_category(d, name, description) ==
    IF \E cat \in list_categories(d) : cat.name = name
       THEN Result("ValueError", {}, d)
       ELSE LET category_id == d.serial.Category IN
            Result("ok", {category_id},
                   [d EXCEPT
                      !.Category = FcnAdd(@, category_id,
                                          [name |-> name, description |-> description]),
                      !.serial.Category = @ + 1])

(* Faulty variant: the category's own name counts as taken. *)
update_category_strict(d, category_id, name, description) ==
    IF \E n \in name : \E cat \in list_categories(d) : cat.name = n
       THEN Result("ValueError", {}, d)
       ELSE Result("ok", {},
                   [d EXCEPT !.Category =
                       [c \in DOMAIN @ |->
                           IF c = category_id
                              THEN [name |-> IF name = {} THEN @[c].name
                                               ELSE CHOOSE n \in name : TRUE,
                                    description |-> IF description = {}
                                                      THEN @[c].description
                                                      ELSE CHOOSE x \in description : TRUE]
                              ELSE @[c]]])

(* name and description are sets: empty for None, else the one value. *)
update_category(d, category_id, name, description) ==
    IF \E n \in name : \E cat \in list_categories(d) :
           cat.name = n /\ cat.ID # category_id
       THEN Result("ValueError", {}, d)
       ELSE Result("ok", {},
                   [d EXCEPT !.Category =
                       [c \in DOMAIN @ |->
                           IF c = category_id
                              THEN [name |-> IF name = {} THEN @[c].name
                                               ELSE CHOOSE n \in name : TRUE,
                                    description |-> IF description = {}
                                                      THEN @[c].description
                                                      ELSE CHOOSE x \in description : TRUE]
                              ELSE @[c]]])

(* Faulty variant: the objects of the category are left behind. *)
delete_category_keeps_objects(d, category_id) ==
    LET d1 == DetachDeleteMorphisms(d, MorphismsOf(d, category_id))
        d3 == DetachDeleteCategories(d1, {c \in DOMAIN d1.Category : c = category_id})
    IN Result("ok", {}, d3)

delete_category(d, category_id) ==
    LET d1 == DetachDeleteMorphisms(d, MorphismsOf(d, category_id))
        d2 == DetachDeleteObjects(d1, ObjectsOf(d1, category_id))
        d3 == DetachDeleteCategories(d2, {c \in DOMAIN d2.Category : c = category_id})
    IN Result("ok", {}, d3)

(***************************************************************************)
(* Object operations.                                                      *)
(***************************************************************************)
create_object(d, name, category_id) ==
    IF \E obj \in get_objects_in_category(d, category_id) : obj.name = name
       THEN Result("ValueError", {}, d)
       ELSE LET object_id == d.serial.Object IN
            Result("ok", {object_id},
                   [d EXCEPT
                      !.Object = FcnAdd(@, object_id, [name |-> name]),
                      !.serial.Object = @ + 1,
                      !.category_objects =
                          @ \cup {<<c, object_id>> : c \in {x \in DOMAIN d.Category :
                                                              x = category_id}}])

update_object(d, object_id, name) ==
    Result("ok", {},
           [d EXCEPT !.Object =
               [o \in DOMAIN @ |->
                   IF o = object_id /\ name # {}
                      THEN [name |-> CHOOSE n \in name : TRUE]
                      ELSE @[o]]])

(* Faulty variant: only the morphisms that start at the object. *)
MorphismsAt_source_only(d, object_id) ==
    {m \in DOMAIN d.Morphism :
        object_id \in DOMAIN d.Object /\ <<m, object_id>> \in d.morphism_source}

(* MATCH (m:Morphism)-[:morphism_source|morphism_target]->(o:Object) WHERE o.ID = $id *)
MorphismsAt(d, object_id) ==
    {m \in DOMAIN d.Morphism :
        object_id \in DOMAIN d.Object
        /\ (<<m, object_id>> \in d.morphism_source \/ <<m, object_id>> \in d.morphism_target)}

(* Faulty variant: a missing object is an error. *)
delete_object_strict(d, object_id) ==
    IF object_id \notin DOMAIN d.Object
       THEN Result("ValueError", {}, d)
       ELSE LET d1 == DetachDeleteMorphisms(d, MorphismsAt(d, object_id))
                d2 == DetachDeleteObjects(d1, {o \in DOMAIN d1.Object : o = object_id})
            IN Result("ok", {}, d2)

delete_object(d, object_id) ==
    LET d1 == DetachDeleteMorphisms(d, MorphismsAt(d, object_id))
        d2 == DetachDeleteObjects(d1, {o \in DOMAIN d1.Object : o = object_id})
    IN Result("ok", {}, d2)

(***************************************************************************)
(* Morphism operations.                                                    *)
(***************************************************************************)
create_morphism(d, name, source_id, target_id, category_id) ==
    IF \E morph \in get_morphisms_in_category(d, category_id) : morph.name = name
       THEN Result("ValueError", {}, d)
       ELSE LET morphism_id == d.serial.Morphism IN
            Result("ok", {morphism_id},
                   [d EXCEPT
                      !.Morphism = FcnAdd(@, morphism_id,
                                          [name |-> name, is_identity |-> FALSE]),
                      !.serial.Morphism = @ + 1,
                      !.category_morphisms =
                          @ \cup {<<c, morphism_id>> : c \in {x \in DOMAIN d.Category :
                                                                x = category_id}},
                      !.morphism_source =
                          @ \cup {<<morphism_id, o>> : o \in {x \in DOMAIN d.Object :
                                                                x = source_id}},
                      !.morphism_target =
                          @ \cup {<<morphism_id, o>> : o \in {x \in DOMAIN d.Object :
                                                                x = target_id}}])

(***************************************************************************)
(* Functor and natural transformation operations.  Neither checks a name.  *)
(***************************************************************************)
create_functor(d, name, source_cat_id, target_cat_id) ==
    LET functor_id == d.serial.Functor IN
    Result("ok", {functor_id},
           [d EXCEPT
              !.Functor = FcnAdd(@, functor_id, [name |-> name]),
              !.serial.Functor = @ + 1,
              !.functor_source =
                  @ \cup {<<functor_id, c>> : c \in {x \in DOMAIN d.Category :
                                                       x = source_cat_id}},
              !.functor_target =
                  @ \cup {<<functor_id, c>> : c \in {x \in DOMAIN d.Category :
                                                       x = target_cat_id}}])

create_natural_transformation(d, name, source_functor_id, target_functor_id) ==
    LET nt_id == d.serial.Natural_Transformation IN
    Result("ok", {nt_id},
           [d EXCEPT
              !.Natural_Transformation = FcnAdd(@, nt_id, [name |-> name]),
              !.serial.Natural_Transformation = @ + 1,
              !.nat_trans_source =
                  @ \cup {<<nt_id, f>> : f \in {x \in DOMAIN d.Functor :
                                                  x = source_functor_id}},
              !.nat_trans_target =
                  @ \cup {<<nt_id, f>> : f \in {x \in DOMAIN d.Functor :
                                                  x = target_functor_id}}])

(* (f)-[:functor_source]->(sc:Category) and (f)-[:functor_target]->(tc:Category) *)
FunctorSource(d, f) == {e[2] : e \in {x \in d.functor_source : x[1] = f}}

FunctorTarget(d, f) == {e[2] : e \in {x \in d.functor_target : x[1] = f}}

(* One copy of edge e for every row of rows. *)
CreateEdges(B, e, rows) == IF rows = {} THEN B ELSE BagAdd(B, e)

(***************************************************************************)
(* Functor mappings.  The CREATE runs once per row that the MATCH clauses  *)
(* leave: the functor, its source category holding s, its target category  *)
(* holding t.  A functor has at most one category at either end, so there  *)
(* is at most one row.                                                     *)
(***************************************************************************)
(* Faulty variant: the target object's category is not matched. *)
add_functor_object_mapping_any_target(d, functor_id, source_obj_id, target_obj_id) ==
    LET rows == {<<f, sc, t>> \in
                     {x \in DOMAIN d.Functor : x = functor_id}
                        \X FunctorSource(d, functor_id)
                        \X {x \in DOMAIN d.Object : x = target_obj_id} :
                   source_obj_id \in ObjectsOf(d, sc)}
    IN Result("ok", {},
              [d EXCEPT !.functor_object_map =
                  CreateEdges(@, <<source_obj_id, target_obj_id, functor_id>>, rows)])

add_functor_object_mapping(d, functor_id, source_obj_id, target_obj_id) ==
    LET rows == {<<f, sc, tc>> \in
                     {x \in DOMAIN d.Functor : x = functor_id}
                        \X FunctorSource(d, functor_id) \X FunctorTarget(d, functor_id) :
                   /\ source_obj_id \in ObjectsOf(d, sc)
                   /\ target_obj_id \in ObjectsOf(d, tc)}
    IN Result("ok", {},
              [d EXCEPT !.functor_object_map =
                  CreateEdges(@, <<source_obj_id, target_obj_id, functor_id>>, rows)])

(* Faulty variant: the functor is not matched. *)
remove_functor_object_mapping_any_functor(d, functor_id, source_obj_id) ==
    Result("ok", {},
           [d EXCEPT !.functor_object_map =
               BagKeep(@, {e \in DOMAIN @ : ~(e[1] = source_obj_id)})])

remove_functor_object_mapping(d, functor_id, source_obj_id) ==
    Result("ok", {},
           [d EXCEPT !.functor_object_map =
               BagKeep(@, {e \in DOMAIN @ : ~(e[3] = functor_id /\ e[1] = source_obj_id)})])

(* The rows, each with its number of copies. *)
get_functor_object_mappings(d, functor_id) ==
    LET edges == {e \in DOMAIN d.functor_object_map : e[3] = functor_id}
        row(e) == [source_object_id |-> e[1], source_object |-> d.Object[e[1]].name,
                   target_object_id |-> e[2], target_object |-> d.Object[e[2]].name]
    IN [r \in {row(e) : e \in edges} |->
           d.functor_object_map[CHOOSE e \in edges : row(e) = r]]

add_functor_morphism_mapping(d, functor_id, source_morph_id, target_morph_id) ==
    LET rows == {<<f, sc, tc>> \in
                     {x \in DOMAIN d.Functor : x = functor_id}
                        \X FunctorSource(d, functor_id) \X FunctorTarget(d, functor_id) :
                   /\ source_morph_id \in MorphismsOf(d, sc)
                   /\ target_morph_id \in MorphismsOf(d, tc)}
    IN Result("ok", {},
              [d EXCEPT !.functor_morphism_map =
                  CreateEdges(@, <<source_morph_id, target_morph_id, functor_id>>, rows)])

remove_functor_morphism_mapping(d, functor_id, source_morph_id) ==
    Result("ok", {},
           [d EXCEPT !.functor_morphism_map =
               BagKeep(@, {e \in DOMAIN @ : ~(e[3] = functor_id /\ e[1] = source_morph_id)})])

get_functor_morphism_mappings(d, functor_id) ==
    LET edges == {e \in DOMAIN d.functor_morphism_map : e[3] = functor_id}
        row(e) == [source_morphism_id |-> e[1], source_morphism |-> d.Morphism[e[1]].name,
                   source_from |-> SourceNames(d, e[1]), source_to |-> TargetNames(d, e[1]),
                   target_morphism_id |-> e[2], target_morphism |-> d.Morphism[e[2]].name,
                   target_from |-> SourceNames(d, e[2]), target_to |-> TargetNames(d, e[2])]
    IN [r \in {row(e) : e \in edges} |->
           d.functor_morphism_map[CHOOSE e \in edges : row(e) = r]]

(***************************************************************************)
(* Natural transformation components.                                      *)
(***************************************************************************)
NatTransSource(d, nt) == {e[2] : e \in {x \in d.nat_trans_source : x[1] = nt}}

NatTransTarget(d, nt) == {e[2] : e \in {x \in d.nat_trans_target : x[1] = nt}}

(* An edge of nat_trans_components is <<nt, morphism, at_object_id>>. *)
add_nt_component(d, nt_id, at_object_id, component_morphism_id) ==
    LET rows == {<<nt, srcCat, tgtCat>> \in
                     {x \in DOMAIN d.Natural_Transformation : x = nt_id}
                        \X (UNION {FunctorSource(d, f) : f \in NatTransSource(d, nt_id)})
                        \X (UNION {FunctorTarget(d, g) : g \in NatTransTarget(d, nt_id)}) :
                   /\ at_object_id \in ObjectsOf(d, srcCat)
                   /\ component_morphism_id \in MorphismsOf(d, tgtCat)}
    IN Result("ok", {},
              [d EXCEPT !.nat_trans_components =
                  CreateEdges(@, <<nt_id, component_morphism_id, at_object_id>>, rows)])

remove_nt_component(d, nt_id, at_object_id) ==
    Result("ok", {},
           [d EXCEPT !.nat_trans_components =
               BagKeep(@, {e \in DOMAIN @ : ~(e[1] = nt_id /\ e[3] = at_object_id)})])

RECURSIVE BagSum(_, _)
BagSum(B, S) ==
    IF S = {} THEN 0
    ELSE LET e == CHOOSE x \in S : TRUE IN B[e] + BagSum(B, S \ {e})

(* WHERE nt.ID = $nt_id belongs to the OPTIONAL MATCH of the target object:
   every component edge of every natural transformation gives a row, and a
   row of another natural transformation has no target object. *)
ComponentRow(d, nt_id, e) ==
    [at_object_id |-> e[3], morphism_id |-> e[2], morphism_name |-> d.Morphism[e[2]].name,
     source_object |-> SourceNames(d, e[2]),
     target_object |-> IF e[1] = nt_id THEN TargetNames(d, e[2]) ELSE {}]

(* The rows, each with its number of copies. *)
get_nt_components(d, nt_id) ==
    LET edges == DOMAIN d.nat_trans_components
    IN [r \in {ComponentRow(d, nt_id, e) : e \in edges} |->
           BagSum(d.nat_trans_components,
                  {e \in edges : ComponentRow(d, nt_id, e) = r})]

(***************************************************************************)
(* validate_naturality.  A message is its text and the name of the         *)
(* morphism it is about; the list returned is a bag of messages.  The      *)
(* queries fix no order of rows, so the operator gives every list that a   *)
(* call can return.  A column that is null is the empty set.               *)
(***************************************************************************)
Message(msg, f) == [msg |-> msg, f |-> f]

Diagnostic(msg) == BagAdd(EmptyBag, Message(msg, ""))

OrNull(S) == IF S = {} THEN {{}} ELSE {{x} : x \in S}

(* MATCH (nt:Natural_Transformation) with its three OPTIONAL MATCH clauses; the
   WHERE nt.ID = $nt_id belongs to the last of them. *)
LinkRows(d, nt_id) ==
    UNION { LET FC == {<<{p[1]}, {p[2]}>> :
                          p \in {x \in NatTransSource(d, nt) \X (DOMAIN d.Category) :
                                    x[2] \in FunctorSource(d, x[1])}}
                GD == {<<{p[1]}, {p[2]}>> :
                          p \in {x \in NatTransTarget(d, nt) \X (DOMAIN d.Category) :
                                    nt = nt_id /\ x[2] \in FunctorTarget(d, x[1])}}
            IN { [F |-> fc[1], G |-> gd[1], C |-> fc[2], D1 |-> d1, D2 |-> gd[2]] :
                    <<fc, d1>> \in
                        {x \in (IF FC = {} THEN {<<{}, {}>>} ELSE FC)
                                  \X OrNull(DOMAIN d.Category) :
                            x[2] \in OrNull(UNION {FunctorTarget(d, f) : f \in x[1][1]})},
                    gd \in (IF GD = {} THEN {<<{}, {}>>} ELSE GD) }
          : nt \in DOMAIN d.Natural_Transformation }

(* The target morphisms that functor_id maps source_morph_id to. *)
MappedTo(d, functor_id, source_morph_id) ==
    {e[2] : e \in {x \in DOMAIN d.functor_morphism_map :
                      x[3] = functor_id /\ x[1] = source_morph_id}}

shape_ok(d, aX, aY, Ff, Gf) ==
    /\ SourceNames(d, Gf) = aX.target_object
    /\ TargetNames(d, Gf) = aY.target_object
    /\ aY.source_object = TargetNames(d, Ff)
    /\ aX.source_object = SourceNames(d, Ff)

Skipping_alpha == "Skipping f: missing alpha_X or alpha_Y"
Skipping_mapping == "Skipping f: missing F(f) or G(f) mapping"
Well_typed == "Square for f is well-typed (cannot prove equality)"
Not_well_typed == "Square for f not well-typed: check component/mapping sources/targets"

(* The lists that the loop over the morphisms of C_id can build. *)
Squares(d, nt_id, F_id, G_id, C_id) ==
    LET comps == DOMAIN get_nt_components(d, nt_id)
        Xs == {c.at_object_id : c \in comps}
        alphas == {a \in [Xs -> comps] : \A x \in Xs : a[x].at_object_id = x}
        rows == {r \in MorphismsOf(d, C_id) \X (DOMAIN d.Object) \X (DOMAIN d.Object) :
                    r[2] \in SourceOf(d, r[1]) /\ r[3] \in TargetOf(d, r[1])}
        said(alpha_by_X, r) ==
            IF r[2] \notin Xs \/ r[3] \notin Xs
               THEN {Skipping_alpha}
               ELSE IF MappedTo(d, F_id, r[1]) = {} \/ MappedTo(d, G_id, r[1]) = {}
                       THEN {Skipping_mapping}
                       ELSE {IF shape_ok(d, alpha_by_X[r[2]], alpha_by_X[r[3]], Ff, Gf)
                                THEN Well_typed ELSE Not_well_typed :
                                Ff \in MappedTo(d, F_id, r[1]), Gf \in MappedTo(d, G_id, r[1])}
        texts == {Skipping_alpha, Skipping_mapping, Well_typed, Not_well_typed}
        message(r, t) == Message(t, d.Morphism[r[1]].name)
        messages(g) ==
            IF rows = {}
               THEN Diagnostic("No morphisms found to check")
               ELSE [m \in {message(r, g[r]) : r \in rows} |->
                        Cardinality({r \in rows : message(r, g[r]) = m})]
    IN UNION { {messages(g) : g \in {h \in [rows -> texts] :
                                        \A r \in rows : h[r] \in said(a, r)}}
               : a \in alphas }

validate_naturality(d, nt_id) ==
    LET rows == LinkRows(d, nt_id)
        first(row) ==
            IF row.F = {} \/ row.G = {} \/ row.C = {} \/ row.D1 = {} \/ row.D2 = {}
               THEN {Diagnostic("Missing linked functors or categories; cannot check naturality")}
               ELSE IF row.D1 # row.D2
                       THEN {Diagnostic("Functor codomains differ; naturality undefined")}
                       ELSE Squares(d, nt_id, CHOOSE x \in row.F : TRUE,
                                    CHOOSE x \in row.G : TRUE, CHOOSE x \in row.C : TRUE)
    IN IF rows = {}
          THEN {Diagnostic("Natural transformation not found")}
          ELSE UNION {first(row) : row \in rows}

(***************************************************************************)
(* validate_nt_structure.  An error is its text and the object id it       *)
(* names (none for a message about the natural transformation itself);     *)
(* the list returned is a bag of errors, and the operator gives every list *)
(* that a call can return.                                                 *)
(***************************************************************************)
StructureError(msg, x_id) == [msg |-> msg, x_id |-> x_id]

Not_linked == "Natural transformation must be linked to source and target functors with categories"
Not_in_source == "Component at object ID x_id is not in the source category"
Not_in_target == "Component morphism for object ID x_id is not in the target category"

(* MATCH (nt:Natural_Transformation) with its two OPTIONAL MATCH clauses; the
   WHERE nt.ID = $nt_id belongs to the second. *)
StructureRows(d, nt_id) ==
    UNION { { [srcCat |-> sc, tgtCat |-> tc] :
                 sc \in OrNull(UNION {FunctorSource(d, sf) : sf \in NatTransSource(d, nt)}),
                 tc \in OrNull(UNION {FunctorTarget(d, tf) :
                                         tf \in {x \in NatTransTarget(d, nt) : nt = nt_id}}) }
          : nt \in DOMAIN d.Natural_Transformation }

(* The second query gives one row for every component edge of nt_id.  Its two
   OPTIONAL MATCH clauses bind srcCat, x and tgtCat, which the RETURN does not
   use: badX tests the edge's own at_object_id and badM the morphism that the
   MATCH has bound. *)
ComponentErrors(d, nt_id) ==
    LET edges == {e \in DOMAIN d.nat_trans_components : e[1] = nt_id}
        badX(e) == e[3] \notin Int
        badM(e) == e[2] \notin Int
        said == {<<e, StructureError(Not_in_source, {e[3]})>> : e \in {x \in edges : badX(x)}}
                   \cup
                {<<e, StructureError(Not_in_target, {e[3]})>> : e \in {x \in edges : badM(x)}}
    IN [m \in {p[2] : p \in said} |->
           BagSum(d.nat_trans_components, {p[1] : p \in {q \in said : q[2] = m}})]

(* Faulty variant: the row's categories are not tested. *)
validate_nt_structure_unlinked(d, nt_id) ==
    LET rows == StructureRows(d, nt_id) IN
    IF rows = {}
       THEN {BagAdd(EmptyBag, StructureError("Natural transformation not found", {}))}
       ELSE {ComponentErrors(d, nt_id)}

validate_nt_structure(d, nt_id) ==
    LET rows == StructureRows(d, nt_id) IN
    IF rows = {}
       THEN {BagAdd(EmptyBag, StructureError("Natural transformation not found", {}))}
       ELSE { IF row.srcCat = {} \/ row.tgtCat = {}
                 THEN BagAdd(EmptyBag, StructureError(Not_linked, {}))
                 ELSE ComponentErrors(d, nt_id)
              : row \in rows }

(***************************************************************************)
(* The connection.  Outside a transaction every statement commits at once; *)
(* BEGIN TRANSACTION keeps the store to return to in snap, and ROLLBACK    *)
(* returns to it.  Whether ROLLBACK also returns the SERIAL generators is  *)
(* not fixed by the code, so both outcomes are allowed.                    *)
(*                                                                         *)
(* begun records, for the caller, the store at the begin_transaction call  *)
(* that no commit_transaction or rollback_transaction call has followed.   *)
(* last records the method called last, what it handed back, the nodes it  *)
(* removed and whether it changed the store.                               *)
(***************************************************************************)
NoSnap == {}

(* Two callers of create_category, each on a connection of its own to the same
   store.  pc is where the caller is in the method, name the name it was given,
   called whether it has called the method at all. *)
Writers == {"w1", "w2"}

Idle == [w \in Writers |-> [pc |-> "idle", name |-> "", called |-> FALSE]]


NoneGone == [Category |-> {}, Object |-> {}, Morphism |-> {}]

(* The nodes of d that e no longer has. *)
Gone(d, e) ==
    [Category |-> DOMAIN d.Category \ DOMAIN e.Category,
     Object |-> DOMAIN d.Object \ DOMAIN e.Object,
     Morphism |-> DOMAIN d.Morphism \ DOMAIN e.Morphism]

Returned(op, res, ret, gone, changed) ==
    [op |-> op, res |-> res, ret |-> ret, gone |-> gone, changed |-> changed]

(* Faulty variant: BEGIN TRANSACTION is sent again inside a transaction. *)
begin_transaction_nested ==
    /\ snap' = {db}
    /\ transaction_active' = TRUE
    /\ begun' = IF begun = {} THEN {db} ELSE begun
    /\ last' = Returned("begin_transaction", "ok", {}, NoneGone, FALSE)
    /\ UNCHANGED <<db, writers>>

begin_transaction ==
    /\ IF ~transaction_active
          THEN /\ snap' = {db}
               /\ transaction_active' = TRUE
          ELSE UNCHANGED <<snap, transaction_active>>
    /\ begun' = IF begun = {} THEN {db} ELSE begun
    /\ last' = Returned("begin_transaction", "ok", {}, NoneGone, FALSE)
    /\ UNCHANGED <<db, writers>>

commit_transaction ==
    /\ IF transaction_active
          THEN /\ snap' = NoSnap
               /\ transaction_active' = FALSE
          ELSE UNCHANGED <<snap, transaction_active>>
    /\ begun' = {}
    /\ last' = Returned("commit_transaction", "ok", {}, NoneGone, FALSE)
    /\ UNCHANGED <<db, writers>>

(* Faulty variant: ROLLBACK is not sent. *)
rollback_transaction_keeps_writes ==
    /\ transaction_active' = FALSE
    /\ snap' = NoSnap
    /\ begun' = {}
    /\ last' = Returned("rollback_transaction", "ok", {}, NoneGone, FALSE)
    /\ UNCHANGED <<db, writers>>

rollback_transaction ==
    /\ IF transaction_active
          THEN /\ \E s \in snap : db' \in {s, [s EXCEPT !.serial = db.serial]}
               /\ snap' = NoSnap
               /\ transaction_active' = FALSE
          ELSE UNCHANGED <<db, snap, transaction_active>>
    /\ begun' = {}
    /\ last' = Returned("rollback_transaction", "ok", {}, Gone(db, db'), Store(db') # Store(db))
    /\ UNCHANGED writers

(* Faulty variant: a method that raises inside a transaction rolls it back. *)
Call_rollback_on_error(op, r) ==
    IF r.res # "ok" /\ transaction_active
       THEN /\ \E s \in snap : db' = [s EXCEPT !.serial = db.serial]
            /\ snap' = NoSnap
            /\ transaction_active' = FALSE
            /\ last' = Returned(op, r.res, r.ret, Gone(db, db'), db' # db)
            /\ UNCHANGED <<begun, writers>>
       ELSE /\ db' = r.db
            /\ last' = Returned(op, r.res, r.ret, Gone(db, r.db), r.db # db)
            /\ UNCHANGED <<snap, transaction_active, begun, writers>>

(* A call of a data method: it leaves the transaction as it is. *)
Call(op, r) ==
    /\ db' = r.db
    /\ last' = Returned(op, r.res, r.ret, Gone(db, r.db), r.db # db)
    /\ UNCHANGED <<snap, transaction_active, begun, writers>>

(* The number of entities created so far; a create that succeeds needs room. *)
Created(d) ==
    d.serial.Category + d.serial.Object + d.serial.Morphism
        + d.serial.Functor + d.serial.Natural_Transformation

Room(r, cap) == r.res = "ok" => Created(db) < cap

(* The ids a caller may pass: every id handed out so far and one never used. *)
CategoryIds == 0 .. db.serial.Category
ObjectIds == 0 .. db.serial.Object
MorphismIds == 0 .. db.serial.Morphism

CreateCategory(name, description, cap) ==
    LET r == create_category(db, name, description)
    IN Room(r, cap) /\ Call("create_category", r)

UpdateCategory(category_id, name, description) ==
    Call("update_category", update_category(db, category_id, name, description))

DeleteCategory(category_id) == Call("delete_category", delete_category(db, category_id))

CreateObject(name, category_id, cap) ==
    LET r == create_object(db, name, category_id)
    IN Room(r, cap) /\ Call("create_object", r)

UpdateObject(object_id, name) == Call("update_object", update_object(db, object_id, name))

DeleteObject(object_id) == Call("delete_object", delete_object(db, object_id))

CreateMorphism(name, source_id, target_id, category_id, cap) ==
    LET r == create_morphism(db, name, source_id, target_id, category_id)
    IN Room(r, cap) /\ Call("create_morphism", r)

GetCategory(category_id) ==
    Call("get_category", Result("ok", get_category(db, category_id), db))

GetObject(object_id) == Call("get_object", Result("ok", get_object(db, object_id), db))

GetObjectsInCategory(category_id) ==
    Call("get_objects_in_category", Result("ok", get_objects_in_category(db, category_id), db))

GetMorphismsInCategory(category_id) ==
    Call("get_morphisms_in_category",
         Result("ok", get_morphisms_in_category(db, category_id), db))

FunctorIds == 0 .. db.serial.Functor

(* An edge is created only while it has fewer than MaxCopies copies. *)
RoomForCopy(B) == \A e \in DOMAIN B : B[e] <= MaxCopies

CreateFunctor(name, source_cat_id, target_cat_id, cap) ==
    LET r == create_functor(db, name, source_cat_id, target_cat_id)
    IN Room(r, cap) /\ Call("create_functor", r)

AddFunctorObjectMapping(functor_id, source_obj_id, target_obj_id) ==
    LET r == add_functor_object_mapping(db, functor_id, source_obj_id, target_obj_id)
    IN /\ RoomForCopy(r.db.functor_object_map)
       /\ Call("add_functor_object_mapping", r)

RemoveFunctorObjectMapping(functor_id, source_obj_id) ==
    Call("remove_functor_object_mapping",
         remove_functor_object_mapping(db, functor_id, source_obj_id))

AddFunctorMorphismMapping(functor_id, source_morph_id, target_morph_id) ==
    LET r == add_functor_morphism_mapping(db, functor_id, source_morph_id, target_morph_id)
    IN /\ RoomForCopy(r.db.functor_morphism_map)
       /\ Call("add_functor_morphism_mapping", r)

RemoveFunctorMorphismMapping(functor_id, source_morph_id) ==
    Call("remove_functor_morphism_mapping",
         remove_functor_morphism_mapping(db, functor_id, source_morph_id))

NatTransIds == 0 .. db.serial.Natural_Transformation

CreateNaturalTransformation(name, source_functor_id, target_functor_id, cap) ==
    LET r == create_natural_transformation(db, name, source_functor_id, target_functor_id)
    IN Room(r, cap) /\ Call("create_natural_transformation", r)

AddNtComponent(nt_id, at_object_id, component_morphism_id) ==
    LET r == add_nt_component(db, nt_id, at_object_id, component_morphism_id)
    IN /\ BagSum(r.db.nat_trans_components, DOMAIN r.db.nat_trans_components) <= MaxComponents
       /\ Call("add_nt_component", r)

RemoveNtComponent(nt_id, at_object_id) ==
    Call("remove_nt_component", remove_nt_component(db, nt_id, at_object_id))

(* The call returns one of the lists that the rows' order allows. *)
ValidateNaturality(nt_id) ==
    \E messages \in validate_naturality(db, nt_id) :
       Call("validate_naturality", Result("ok", messages, db))

ValidateNtStructure(nt_id) ==
    \E errors \in validate_nt_structure(db, nt_id) :
       Call("validate_nt_structure", Result("ok", errors, db))

InitializeSchema == Call("initialize_schema", initialize_schema(db))

(***************************************************************************)
(* The except clause of every method, for an exception that conn.execute   *)
(* raises in the method's first statement: the store is as it was.  The    *)
(* three validators return a list holding the exception's text; every      *)
(* other method logs and raises again.                                     *)
(***************************************************************************)
Validators == {"validate_nt_structure", "validate_naturality", "validate_category_structure"}

Methods ==
    {"create_category", "get_category", "list_categories", "update_category",
     "delete_category", "create_object", "get_object", "get_objects_in_category",
     "update_object", "delete_object", "create_morphism", "get_morphisms_in_category",
     "create_functor", "create_natural_transformation",
     "add_functor_object_mapping", "remove_functor_object_mapping",
     "get_functor_object_mappings", "add_functor_morphism_mapping",
     "remove_functor_morphism_mapping", "get_functor_morphism_mappings",
     "add_nt_component", "remove_nt_component", "get_nt_components"} \cup Validators

Validation_failed == "Validation failed: e"

OnStoreFailure(op, d) ==
    IF op = "validate_nt_structure"
       THEN Result("ok", BagAdd(EmptyBag, StructureError(Validation_failed, {})), d)
       ELSE IF op \in Validators
               THEN Result("ok", Diagnostic(Validation_failed), d)
               ELSE Result("Exception", {}, d)

StoreFails(op) == Call(op, OnStoreFailure(op, db))

(***************************************************************************)
(* create_category in two steps, for a caller whose statements interleave  *)
(* with those of another connection: the scan of list_categories, then the *)
(* CREATE.  Outside a transaction each statement commits at once.          *)
(***************************************************************************)
(* Faulty variant: the scan finds nothing. *)
ScanCategories_blind(w, name) ==
    /\ writers[w].pc = "idle"
    /\ writers' = [writers EXCEPT ![w] = [pc |-> "create", name |-> name, called |-> TRUE]]
    /\ UNCHANGED <<db, snap, transaction_active, begun, last>>

ScanCategories(w, name) ==
    /\ writers[w].pc = "idle"
    /\ IF \E cat \in list_categories(db) : cat.name = name
          THEN /\ writers' = [writers EXCEPT ![w].called = TRUE]
               /\ last' = Returned("create_category", "ValueError", {}, NoneGone, FALSE)
          ELSE /\ writers' = [writers EXCEPT
                                 ![w] = [pc |-> "create", name |-> name, called |-> TRUE]]
               /\ UNCHANGED last
    /\ UNCHANGED <<db, snap, transaction_active, begun>>

CreateCategoryNode(w, cap) ==
    /\ writers[w].pc = "create"
    /\ Created(db) < cap
    /\ LET category_id == db.serial.Category IN
       /\ db' = [db EXCEPT
                    !.Category = FcnAdd(@, category_id,
                                        [name |-> writers[w].name, description |-> ""]),
                    !.serial.Category = @ + 1]
       /\ last' = Returned("create_category", "ok", {category_id}, NoneGone, TRUE)
    /\ writers' = [writers EXCEPT ![w].pc = "idle"]
    /\ UNCHANGED <<snap, transaction_active, begun>>

(***************************************************************************)
(* Spec: categories, objects and morphisms of one connection, from the     *)
(* empty store, outside a transaction.                                     *)
(***************************************************************************)
Init ==
    /\ db = EmptyDb
    /\ snap = NoSnap
    /\ transaction_active = FALSE
    /\ begun = {}
    /\ writers = Idle
    /\ last = Returned("init", "ok", {}, NoneGone, FALSE)

Next ==
    \/ \E n \in Names : CreateCategory(n, "", MaxEntities)
    \/ \E c \in CategoryIds : DeleteCategory(c)
    \/ \E n \in Names, c \in CategoryIds : CreateObject(n, c, MaxEntities)
    \/ \E o \in ObjectIds : DeleteObject(o)
    \/ \E n \in Names, s \in ObjectIds, t \in ObjectIds, c \in CategoryIds :
          CreateMorphism(n, s, t, c, MaxEntities)

Spec == Init /\ [][Next]_vars

(***************************************************************************)
(* SpecObj: the objects of one connection, with renames, from the empty    *)
(* store.                                                                  *)
(***************************************************************************)
NextObj ==
    \/ \E n \in Names : CreateCategory(n, "", MaxEntities)
    \/ \E c \in CategoryIds : DeleteCategory(c)
    \/ \E n \in Names, c \in CategoryIds : CreateObject(n, c, MaxEntities)
    \/ \E o \in ObjectIds, n \in Names : UpdateObject(o, {n})
    \/ \E o \in ObjectIds : DeleteObject(o)

SpecObj == Init /\ [][NextObj]_vars

(***************************************************************************)
(* C2: no two objects owned by the same category have the same name, in    *)
(* every state reachable by create_object, update_object, delete_object    *)
(* and delete_category.                                                    *)
(***************************************************************************)
C2_ObjectNamesUniquePerCategory ==
    \A c \in DOMAIN db.Category : \A o1, o2 \in ObjectsOf(db, c) :
        db.Object[o1].name = db.Object[o2].name => o1 = o2

(***************************************************************************)
(* C3: in every reachable state, create_object and create_morphism raise   *)
(* exactly when the category already has an entity of that kind with that  *)
(* name, and then add nothing; otherwise (also when the name exists in     *)
(* another category) the call succeeds, returns an id that no existing     *)
(* entity has and adds that entity to the category.                        *)
(***************************************************************************)
NamesIn(d, kind, ids) == {d[kind][i].name : i \in ids}

C3_ScopedUniqueness ==
    /\ \A n \in Names, c \in CategoryIds :
          LET r == create_object(db, n, c) IN
          /\ r.res = "ValueError" <=> n \in NamesIn(db, "Object", ObjectsOf(db, c))
          /\ r.res = "ValueError" => r.db = db
          /\ r.res = "ok" =>
                \E o \in r.ret :
                   /\ o \notin DOMAIN db.Object
                   /\ DOMAIN r.db.Object = DOMAIN db.Object \cup {o}
                   /\ r.db.Object[o].name = n
                   /\ c \in DOMAIN db.Category => ObjectsOf(r.db, c) = ObjectsOf(db, c) \cup {o}
    /\ \A n \in Names, s \in ObjectIds, t \in ObjectIds, c \in CategoryIds :
          LET r == create_morphism(db, n, s, t, c) IN
          /\ r.res = "ValueError" <=> n \in NamesIn(db, "Morphism", MorphismsOf(db, c))
          /\ r.res = "ValueError" => r.db = db
          /\ r.res = "ok" =>
                \E m \in r.ret :
                   /\ m \notin DOMAIN db.Morphism
                   /\ DOMAIN r.db.Morphism = DOMAIN db.Morphism \cup {m}
                   /\ r.db.Morphism[m].name = n
                   /\ c \in DOMAIN db.Category =>
                         MorphismsOf(r.db, c) = MorphismsOf(db, c) \cup {m}

(* An object was just created under a name that an object of another category has. *)
C3_Witness ==
    /\ last.op = "create_object"
    /\ last.res = "ok"
    /\ \E o \in last.ret, p \in DOMAIN db.Object, c1 \in DOMAIN db.Category, c2 \in DOMAIN db.Category :
          /\ o # p
          /\ c1 # c2
          /\ o \in ObjectsOf(db, c1)
          /\ p \in ObjectsOf(db, c2)
          /\ db.Object[o].name = db.Object[p].name

(***************************************************************************)
(* C4: in every reachable state, delete_category(C) of an existing         *)
(* category C, whatever it holds, leaves a store in which get_category(C)  *)
(* is None, get_object is None for every object C owned,                   *)
(* get_morphisms_in_category(C) is empty and there is exactly one category *)
(* fewer.                                                                  *)
(***************************************************************************)
C4_DeleteCategoryCascades ==
    \A c \in DOMAIN db.Category :
       LET r == delete_category(db, c) IN
       /\ r.res = "ok"
       /\ get_category(r.db, c) = {}
       /\ \A o \in ObjectsOf(db, c) : get_object(r.db, o) = {}
       /\ get_morphisms_in_category(r.db, c) = {}
       /\ Cardinality(list_categories(r.db)) = Cardinality(list_categories(db)) - 1

(* delete_category has just removed a category together with objects and morphisms. *)
C4_Witness ==
    /\ last.op = "delete_category"
    /\ last.gone.Category # {}
    /\ last.gone.Object # {}
    /\ last.gone.Morphism # {}

(***************************************************************************)
(* C5: in every reachable state, delete_object(A) of an existing object A  *)
(* removes A and exactly the morphisms with A as source or target,         *)
(* whatever category owns them; every other morphism, object and category  *)
(* is as before, with the same owner, source and target.                   *)
(***************************************************************************)
C5_DeleteObjectFrame ==
    \A a \in DOMAIN db.Object :
       LET r == delete_object(db, a)
           hit == {m \in DOMAIN db.Morphism : a \in SourceOf(db, m) \cup TargetOf(db, m)}
       IN /\ r.res = "ok"
          /\ DOMAIN r.db.Object = DOMAIN db.Object \ {a}
          /\ DOMAIN r.db.Morphism = DOMAIN db.Morphism \ hit
          /\ r.db.Category = db.Category
          /\ \A m \in DOMAIN r.db.Morphism :
                /\ r.db.Morphism[m] = db.Morphism[m]
                /\ SourceOf(r.db, m) = SourceOf(db, m)
                /\ TargetOf(r.db, m) = TargetOf(db, m)
                /\ OwnerOfMorphism(r.db, m) = OwnerOfMorphism(db, m)
          /\ \A o \in DOMAIN r.db.Object :
                /\ r.db.Object[o] = db.Object[o]
                /\ OwnerOfObject(r.db, o) = OwnerOfObject(db, o)

(* delete_object has just removed an object and a morphism at it; another morphism,
   with a source and a target of its own, is still there. *)
C5_Witness ==
    /\ last.op = "delete_object"
    /\ last.gone.Object # {}
    /\ last.gone.Morphism # {}
    /\ \E m \in DOMAIN db.Morphism : SourceOf(db, m) # {} /\ TargetOf(db, m) # {}

(***************************************************************************)
(* C7: in every reachable state, delete_category and delete_object with an *)
(* id that names no entity return success and leave the store as it is;    *)
(* so does a second delete of an id that was just deleted.                 *)
(***************************************************************************)
C7_DeleteIsIdempotent ==
    /\ \A c \in CategoryIds :
          LET r == delete_category(db, c) IN
          /\ c \notin DOMAIN db.Category => r.res = "ok" /\ r.db = db
          /\ delete_category(r.db, c) = Result("ok", {}, r.db)
    /\ \A o \in ObjectIds :
          LET r == delete_object(db, o) IN
          /\ o \notin DOMAIN db.Object => r.res = "ok" /\ r.db = db
          /\ delete_object(r.db, o) = Result("ok", {}, r.db)

(* delete_category, called after a category had been deleted, has removed nothing. *)
C7_Witness ==
    /\ last.op = "delete_category"
    /\ last.res = "ok"
    /\ ~last.changed
    /\ \E c \in 0 .. db.serial.Category - 1 : c \notin DOMAIN db.Category

(***************************************************************************)
(* SpecTx: one connection with transactions, from the empty store:         *)
(* categories and their objects are written and read, inside and outside   *)
(* transactions.                                                           *)
(***************************************************************************)
Descriptions == {"", "d"}

Optional(S) == {{}} \cup {{x} : x \in S}

NextTx ==
    \/ begin_transaction
    \/ commit_transaction
    \/ rollback_transaction
    \/ \E n \in Names, x \in Descriptions : CreateCategory(n, x, MaxTxEntities)
    \/ \E c \in CategoryIds, n \in Optional(Names), x \in Optional(Descriptions) :
          UpdateCategory(c, n, x)
    \/ \E c \in CategoryIds : DeleteCategory(c)
    \/ \E n \in Names, c \in CategoryIds : CreateObject(n, c, MaxTxEntities)
    \/ \E o \in ObjectIds : DeleteObject(o)
    \/ \E c \in CategoryIds : GetCategory(c)
    \/ \E o \in ObjectIds : GetObject(o)
    \/ \E c \in CategoryIds : GetObjectsInCategory(c)
    \/ \E c \in CategoryIds : GetMorphismsInCategory(c)

SpecTx == Init /\ [][NextTx]_vars

(***************************************************************************)
(* C1: in every state reachable by create_category, update_category,       *)
(* delete_category and begin/commit/rollback, no two categories have the   *)
(* same name, and create_category with the name of an existing category    *)
(* raises the duplicate-name error and adds no category.                   *)
(***************************************************************************)
C1_CategoryNamesUnique ==
    /\ \A c1, c2 \in DOMAIN db.Category :
          db.Category[c1].name = db.Category[c2].name => c1 = c2
    /\ \A n \in Names, x \in Descriptions :
          LET r == create_category(db, n, x) IN
          (\E c \in DOMAIN db.Category : db.Category[c].name = n)
             => r.res = "ValueError" /\ r.db = db

(* Inside a transaction, create_category has just raised and added nothing. *)
C1_Witness ==
    /\ last.op = "create_category"
    /\ last.res = "ValueError"
    /\ ~last.changed
    /\ transaction_active

C8_ReadMissesByAbsence ==
    /\ \A c \in CategoryIds \ DOMAIN db.Category :
          /\ get_category(db, c) = {}
          /\ get_objects_in_category(db, c) = {}
          /\ get_morphisms_in_category(db, c) = {}
    /\ \A o \in ObjectIds \ DOMAIN db.Object : get_object(db, o) = {}
    /\ last.op \in {"get_category", "get_object", "get_objects_in_category",
                    "get_morphisms_in_category"} => last.res = "ok"

(* get_category has just returned None while a category is stored: the id asked
   for was deleted, rolled back or never handed out. *)
C8_Witness ==
    /\ last.op = "get_category"
    /\ last.res = "ok"
    /\ last.ret = {}
    /\ db.serial.Category > 0
    /\ DOMAIN db.Category # {}

(***************************************************************************)
(* SpecMap: the functor mappings.  The store holds what these calls leave: *)
(* categories C, D, E; objects X, Y of C, FX of D, Z of E; morphisms       *)
(* f: X -> Y of C, Ff: FX -> FX of D, h: Z -> Z of E; functors F, G: C -> D*)
(* and K, created from C to a category id that names no category.          *)
(***************************************************************************)
MapStore ==
    LET c0 == create_category(EmptyDb, "C", "").db
        c1 == create_category(c0, "D", "").db
        c2 == create_category(c1, "E", "").db
        o0 == create_object(c2, "X", 0).db
        o1 == create_object(o0, "Y", 0).db
        o2 == create_object(o1, "FX", 1).db
        o3 == create_object(o2, "Z", 2).db
        m0 == create_morphism(o3, "f", 0, 1, 0).db
        m1 == create_morphism(m0, "Ff", 2, 2, 1).db
        m2 == create_morphism(m1, "h", 3, 3, 2).db
        f0 == create_functor(m2, "F", 0, 1).db
        f1 == create_functor(f0, "G", 0, 1).db
        f2 == create_functor(f1, "K", 0, 3).db
    IN f2

InitMap ==
    /\ db = MapStore
    /\ snap = NoSnap
    /\ transaction_active = FALSE
    /\ begun = {}
    /\ writers = Idle
    /\ last = Returned("init", "ok", {}, NoneGone, FALSE)

NextMap ==
    \/ \E f \in FunctorIds, s \in ObjectIds, t \in ObjectIds : AddFunctorObjectMapping(f, s, t)
    \/ \E f \in FunctorIds, s \in ObjectIds : RemoveFunctorObjectMapping(f, s)
    \/ \E f \in FunctorIds, s \in MorphismIds, t \in MorphismIds :
          AddFunctorMorphismMapping(f, s, t)
    \/ \E f \in FunctorIds, s \in MorphismIds : RemoveFunctorMorphismMapping(f, s)
    \/ \E o \in ObjectIds : DeleteObject(o)
    \/ \E c \in CategoryIds : DeleteCategory(c)

SpecMap == InitMap /\ [][NextMap]_vars

(***************************************************************************)
(* C9: in every reachable state, add_functor_object_mapping(F, s, t)       *)
(* writes a mapping only if s is an object of F's source category and t an *)
(* object of F's target category, and add_functor_morphism_mapping         *)
(* likewise for morphisms; a call that fails this guard returns success    *)
(* and leaves the store, and so every functor's mapping list, as it was.   *)
(***************************************************************************)
ObjectMappingTyped(d, f, s, t) ==
    /\ f \in DOMAIN d.Functor
    /\ s \in DOMAIN d.Object
    /\ t \in DOMAIN d.Object
    /\ OwnerOfObject(d, s) \cap FunctorSource(d, f) # {}
    /\ OwnerOfObject(d, t) \cap FunctorTarget(d, f) # {}

MorphismMappingTyped(d, f, s, t) ==
    /\ f \in DOMAIN d.Functor
    /\ s \in DOMAIN d.Morphism
    /\ t \in DOMAIN d.Morphism
    /\ OwnerOfMorphism(d, s) \cap FunctorSource(d, f) # {}
    /\ OwnerOfMorphism(d, t) \cap FunctorTarget(d, f) # {}

C9_TypedMappingRejection ==
    /\ \A f \in FunctorIds, s \in ObjectIds, t \in ObjectIds :
          LET r == add_functor_object_mapping(db, f, s, t) IN
          /\ r.res = "ok"
          /\ r.db.functor_object_map # db.functor_object_map
                => ObjectMappingTyped(db, f, s, t)
          /\ ~ObjectMappingTyped(db, f, s, t) =>
                /\ r.db = db
                /\ \A g \in FunctorIds :
                      get_functor_object_mappings(r.db, g) = get_functor_object_mappings(db, g)
    /\ \A f \in FunctorIds, s \in MorphismIds, t \in MorphismIds :
          LET r == add_functor_morphism_mapping(db, f, s, t) IN
          /\ r.res = "ok"
          /\ r.db.functor_morphism_map # db.functor_morphism_map
                => MorphismMappingTyped(db, f, s, t)
          /\ ~MorphismMappingTyped(db, f, s, t) =>
                /\ r.db = db
                /\ \A g \in FunctorIds :
                      get_functor_morphism_mappings(r.db, g)
                         = get_functor_morphism_mappings(db, g)

(* add_functor_object_mapping has just returned without writing, and the mapping
   written earlier is still listed. *)
C9_Witness ==
    /\ last.op = "add_functor_object_mapping"
    /\ last.res = "ok"
    /\ ~last.changed
    /\ \E f \in DOMAIN db.Functor : DOMAIN get_functor_object_mappings(db, f) # {}

(***************************************************************************)
(* SpecNT: natural transformations over a fixed pair of categories.        *)
(* C has the objects X, Y and f: X -> Y; D has P, Q, e: P -> P and         *)
(* u: P -> Q; F and G are functors from C to D and alpha is a natural      *)
(* transformation from F to G.  Components and morphism mappings are added *)
(* and removed, further natural transformations are created, and           *)
(* naturality is validated.                                                *)
(***************************************************************************)
NtStore ==
    LET c0 == create_category(EmptyDb, "C", "").db
        c1 == create_category(c0, "D", "").db
        o0 == create_object(c1, "X", 0).db
        o1 == create_object(o0, "Y", 0).db
        o2 == create_object(o1, "P", 1).db
        o3 == create_object(o2, "Q", 1).db
        m0 == create_morphism(o3, "f", 0, 1, 0).db
        m1 == create_morphism(m0, "e", 2, 2, 1).db
        m2 == create_morphism(m1, "u", 2, 3, 1).db
        f0 == create_functor(m2, "F", 0, 1).db
        f1 == create_functor(f0, "G", 0, 1).db
        n0 == create_natural_transformation(f1, "alpha", 0, 1).db
    IN n0

InitNT ==
    /\ db = NtStore
    /\ snap = NoSnap
    /\ transaction_active = FALSE
    /\ begun = {}
    /\ writers = Idle
    /\ last = Returned("init", "ok", {}, NoneGone, FALSE)

NextNT ==
    \/ \E f \in FunctorIds, g \in FunctorIds :
          CreateNaturalTransformation("beta", f, g, Created(NtStore) + MaxNew)
    \/ \E nt \in NatTransIds, x \in ObjectIds, m \in MorphismIds : AddNtComponent(nt, x, m)
    \/ \E nt \in NatTransIds, x \in ObjectIds : RemoveNtComponent(nt, x)
    \/ \E f \in FunctorIds, s \in MorphismIds, t \in MorphismIds :
          AddFunctorMorphismMapping(f, s, t)
    \/ \E f \in FunctorIds, s \in MorphismIds : RemoveFunctorMorphismMapping(f, s)
    \/ \E nt \in NatTransIds : ValidateNaturality(nt)

SpecNT == InitNT /\ [][NextNT]_vars

(***************************************************************************)
(* C10: in every reachable state, for a natural transformation nt whose    *)
(* functors F and G are linked and share their source category C and their *)
(* target category, every list that validate_naturality(nt) can return has *)
(* exactly one message for each morphism f: X -> Y of C: the 'skip'        *)
(* message if nt has no component at X or none at Y, else the 'missing     *)
(* mapping' message if F(f) or G(f) is absent, else 'well-typed' or 'not   *)
(* well-typed'; and when the report for f is 'well-typed', it is 'missing  *)
(* mapping' after remove_functor_morphism_mapping(F, f).                   *)
(***************************************************************************)
HasComponentAt(d, nt, x) == \E e \in DOMAIN d.nat_trans_components : e[1] = nt /\ e[3] = x

C10_NaturalityMessages ==
    \A nt \in DOMAIN db.Natural_Transformation :
       \A F \in NatTransSource(db, nt), G \in NatTransTarget(db, nt) :
          \A C \in FunctorSource(db, F) \cap FunctorSource(db, G) :
             FunctorTarget(db, F) \cap FunctorTarget(db, G) # {} =>
                \A f \in MorphismsOf(db, C) : \A X \in SourceOf(db, f), Y \in TargetOf(db, f) :
                   LET name == db.Morphism[f].name
                       expected ==
                           IF ~HasComponentAt(db, nt, X) \/ ~HasComponentAt(db, nt, Y)
                              THEN {Skipping_alpha}
                              ELSE IF MappedTo(db, F, f) = {} \/ MappedTo(db, G, f) = {}
                                      THEN {Skipping_mapping}
                                      ELSE {Well_typed, Not_well_typed}
                       removed == remove_functor_morphism_mapping(db, F, f).db
                   IN /\ \A messages \in validate_naturality(db, nt) :
                            LET about == {m \in DOMAIN messages : m.f = name} IN
                            /\ BagSum(messages, about) = 1
                            /\ \A m \in about : m.msg \in expected
                      /\ (\A messages \in validate_naturality(db, nt) :
                             Message(Well_typed, name) \in DOMAIN messages)
                            => \A messages \in validate_naturality(removed, nt) :
                                  Message(Skipping_mapping, name) \in DOMAIN messages

(***************************************************************************)
(* C11: in every reachable state, for a natural transformation nt whose    *)
(* functors F and G are linked and share their categories, and a morphism  *)
(* f: X -> Y of the source category for which nt has one component         *)
(* morphism at X and one at Y and F and G each map f to one morphism:      *)
(* every list that validate_naturality(nt) can return reports the square   *)
(* for f as 'well-typed' if G(f).source = alpha_X.target, G(f).target =    *)
(* alpha_Y.target, alpha_Y.source = F(f).target and alpha_X.source =       *)
(* F(f).source (by object name), and as 'not well-typed' otherwise.        *)
(***************************************************************************)
ComponentsAt(d, nt, x) ==
    {e[2] : e \in {c \in DOMAIN d.nat_trans_components : c[1] = nt /\ c[3] = x}}

C11_ShapeRule ==
    \A nt \in DOMAIN db.Natural_Transformation :
       \A F \in NatTransSource(db, nt), G \in NatTransTarget(db, nt) :
          \A C \in FunctorSource(db, F) \cap FunctorSource(db, G) :
             FunctorTarget(db, F) \cap FunctorTarget(db, G) # {} =>
                \A f \in MorphismsOf(db, C) : \A X \in SourceOf(db, f), Y \in TargetOf(db, f) :
                   \A aX \in ComponentsAt(db, nt, X), aY \in ComponentsAt(db, nt, Y),
                      Ff \in MappedTo(db, F, f), Gf \in MappedTo(db, G, f) :
                      (/\ ComponentsAt(db, nt, X) = {aX}
                       /\ ComponentsAt(db, nt, Y) = {aY}
                       /\ MappedTo(db, F, f) = {Ff}
                       /\ MappedTo(db, G, f) = {Gf}) =>
                         LET name == db.Morphism[f].name
                             shape == /\ SourceNames(db, Gf) = TargetNames(db, aX)
                                      /\ TargetNames(db, Gf) = TargetNames(db, aY)
                                      /\ SourceNames(db, aY) = TargetNames(db, Ff)
                                      /\ SourceNames(db, aX) = SourceNames(db, Ff)
                         IN \A messages \in validate_naturality(db, nt) :
                               {m.msg : m \in {x \in DOMAIN messages : x.f = name}}
                                  = IF shape THEN {Well_typed} ELSE {Not_well_typed}

(***************************************************************************)
(* C13: in every state reachable by add_nt_component and                   *)
(* remove_nt_component, a natural transformation has at most one stored    *)
(* component for each at_object_id.                                        *)
(***************************************************************************)
C13_OneComponentPerObject ==
    \A nt \in DOMAIN db.Natural_Transformation : \A x \in ObjectIds :
       BagSum(db.nat_trans_components,
              {e \in DOMAIN db.nat_trans_components : e[1] = nt /\ e[3] = x}) <= 1

(***************************************************************************)
(* SpecStruct: the natural transformation alpha of NtStore alone: its      *)
(* components are added and removed, objects and categories are deleted    *)
(* under it, and its structure is validated.                               *)
(***************************************************************************)
NextStruct ==
    \/ \E nt \in NatTransIds, x \in ObjectIds, m \in MorphismIds : AddNtComponent(nt, x, m)
    \/ \E nt \in NatTransIds, x \in ObjectIds : RemoveNtComponent(nt, x)
    \/ \E o \in ObjectIds : DeleteObject(o)
    \/ \E c \in CategoryIds : DeleteCategory(c)
    \/ \E nt \in NatTransIds : ValidateNtStructure(nt)

SpecStruct == InitNT /\ [][NextStruct]_vars

(***************************************************************************)
(* C12: in every reachable state, for a natural transformation nt whose    *)
(* source functor has a source category and whose target functor has a     *)
(* target category, every list that validate_nt_structure(nt) can return   *)
(* is empty exactly when every stored component of nt has an at_object_id  *)
(* that names an object of the source category and a morphism owned by the *)
(* target category, and has a message naming the object id of every        *)
(* component that fails this.                                              *)
(***************************************************************************)
C12_StructureReport ==
    \A nt \in DOMAIN db.Natural_Transformation :
       \A sf \in NatTransSource(db, nt), tf \in NatTransTarget(db, nt) :
          \A srcCat \in FunctorSource(db, sf), tgtCat \in FunctorTarget(db, tf) :
             LET failing == {e \in DOMAIN db.nat_trans_components :
                               /\ e[1] = nt
                               /\ \/ e[3] \notin ObjectsOf(db, srcCat)
                                  \/ e[2] \notin MorphismsOf(db, tgtCat)}
             IN \A errors \in validate_nt_structure(db, nt) :
                   /\ errors = EmptyBag <=> failing = {}
                   /\ \A e \in failing : \E m \in DOMAIN errors : m.x_id = {e[3]}

(***************************************************************************)
(* C14: in every reachable state, the source object and the target object  *)
(* of every morphism belong to the category that owns the morphism.        *)
(***************************************************************************)
C14_EndpointsInOwningCategory ==
    \A m \in DOMAIN db.Morphism : \A c \in OwnerOfMorphism(db, m) :
       \A o \in SourceOf(db, m) \cup TargetOf(db, m) : c \in OwnerOfObject(db, o)

(***************************************************************************)
(* C15: in every reachable state, update_category(id, name, description)   *)
(* raises the duplicate-name error exactly when a name is given that a     *)
(* category other than id has (the category's own name is accepted); when  *)
(* it raises, the store is unchanged; when it succeeds, the category id    *)
(* has the given name and description, keeps the one that was not given,   *)
(* and nothing else in the store changes.                                  *)
(***************************************************************************)
C15_UpdateCategory ==
    \A id \in CategoryIds, name \in Optional(Names), description \in Optional(Descriptions) :
       LET r == update_category(db, id, name, description)
           taken == \E k \in DOMAIN db.Category :
                       k # id /\ name = {db.Category[k].name}
       IN /\ r.res = "ValueError" <=> taken
          /\ r.res = "ValueError" => r.db = db
          /\ r.res = "ok" =>
                /\ r.db = [db EXCEPT !.Category = r.db.Category]
                /\ DOMAIN r.db.Category = DOMAIN db.Category
                /\ \A k \in DOMAIN db.Category :
                      IF k = id
                         THEN /\ {r.db.Category[k].name} =
                                    (IF name = {} THEN {db.Category[k].name} ELSE name)
                              /\ {r.db.Category[k].description} =
                                    (IF description = {} THEN {db.Category[k].description}
                                                         ELSE description)
                         ELSE r.db.Category[k] = db.Category[k]

(* update_category has just raised while two categories exist, one of which was
   given a new description before. *)
C15_Witness ==
    /\ last.op = "update_category"
    /\ last.res = "ValueError"
    /\ Cardinality(DOMAIN db.Category) = 2
    /\ \E k \in DOMAIN db.Category : db.Category[k].description = "d"

(***************************************************************************)
(* C16: transaction_active is true exactly from a begin_transaction to the *)
(* next commit_transaction or rollback_transaction, and no data operation  *)
(* changes it.  begin_transaction inside a transaction opens no boundary:  *)
(* the rollback that follows returns to the store of the begin that opened *)
(* the transaction.  commit_transaction and rollback_transaction outside a *)
(* transaction change nothing.                                             *)
(***************************************************************************)
TransactionOps == {"begin_transaction", "commit_transaction", "rollback_transaction"}

C16_NoNestedTransactions ==
    /\ [](transaction_active <=> begun # {})
    /\ [][ /\ last'.op = "begin_transaction" =>
                /\ transaction_active'
                /\ db' = db
                /\ transaction_active => snap' = snap
           /\ last'.op = "commit_transaction" =>
                /\ ~transaction_active'
                /\ db' = db
           /\ last'.op = "rollback_transaction" =>
                /\ ~transaction_active'
                /\ ~transaction_active => db' = db
                /\ \A b \in begun : Store(db') = Store(b)
           /\ last'.op \notin TransactionOps =>
                transaction_active' = transaction_active
         ]_vars

(* begin_transaction has just been called inside a transaction that had already
   written. *)
C16_Witness ==
    /\ last.op = "begin_transaction"
    /\ transaction_active
    /\ \E b \in begun : Store(b) # Store(db)

(***************************************************************************)
(* C17: a method that raises the duplicate-name error leaves the           *)
(* transaction as it is: transaction_active keeps its value and the store  *)
(* the connection reads, with the writes made since begin_transaction, is  *)
(* unchanged; the store changes back to that of begin_transaction only in  *)
(* a rollback_transaction step.                                            *)
(***************************************************************************)
C17_FailureKeepsTransactionOpen ==
    [][ /\ last'.res = "ValueError" =>
             /\ transaction_active' = transaction_active
             /\ snap' = snap
             /\ db' = db
        /\ (transaction_active /\ ~transaction_active' /\ db' # db)
              => last'.op = "rollback_transaction"
      ]_vars

(* Inside a transaction that has written, create_category has just raised. *)
C17_Witness ==
    /\ last.op = "create_category"
    /\ last.res = "ValueError"
    /\ transaction_active
    /\ \E b \in begun : DOMAIN db.Category # DOMAIN b.Category

(***************************************************************************)
(* SpecLink: natural transformations between any two functors.  C has the  *)
(* object X and f: X -> X, D has P and e: P -> P; F and G go from C to D,  *)
(* H from D to D and K from C to C.  A natural transformation is created   *)
(* between any two of them (or ids that name no functor), components are   *)
(* added and removed, and it is validated.                                 *)
(***************************************************************************)
LinkStore ==
    LET c0 == create_category(EmptyDb, "C", "").db
        c1 == create_category(c0, "D", "").db
        o0 == create_object(c1, "X", 0).db
        o1 == create_object(o0, "P", 1).db
        m0 == create_morphism(o1, "f", 0, 0, 0).db
        m1 == create_morphism(m0, "e", 1, 1, 1).db
        f0 == create_functor(m1, "F", 0, 1).db
        f1 == create_functor(f0, "G", 0, 1).db
        f2 == create_functor(f1, "H", 1, 1).db
        f3 == create_functor(f2, "K", 0, 0).db
    IN f3

InitLink ==
    /\ db = LinkStore
    /\ snap = NoSnap
    /\ transaction_active = FALSE
    /\ begun = {}
    /\ writers = Idle
    /\ last = Returned("init", "ok", {}, NoneGone, FALSE)

NextLink ==
    \/ \E f \in FunctorIds, g \in FunctorIds :
          CreateNaturalTransformation("alpha", f, g, Created(LinkStore) + MaxNew)
    \/ \E nt \in NatTransIds, x \in ObjectIds, m \in MorphismIds : AddNtComponent(nt, x, m)
    \/ \E nt \in NatTransIds, x \in ObjectIds : RemoveNtComponent(nt, x)
    \/ \E f \in FunctorIds, s \in MorphismIds, t \in MorphismIds :
          AddFunctorMorphismMapping(f, s, t)
    \/ \E f \in FunctorIds, s \in MorphismIds : RemoveFunctorMorphismMapping(f, s)
    \/ \E nt \in NatTransIds : ValidateNaturality(nt)
    \/ \E nt \in NatTransIds : ValidateNtStructure(nt)

SpecLink == InitLink /\ [][NextLink]_vars

(***************************************************************************)
(* C18: in every reachable state, add_nt_component(nt, X, m) returns       *)
(* success, and it stores a component only if nt has a source functor and  *)
(* a target functor, X is an object of the source category that the two    *)
(* functors share and m a morphism of the target category that they        *)
(* share; otherwise the store is unchanged.                                *)
(***************************************************************************)
TypedChain(d, nt, x, m) ==
    \E F \in NatTransSource(d, nt), G \in NatTransTarget(d, nt) :
       /\ \E C \in FunctorSource(d, F) \cap FunctorSource(d, G) : x \in ObjectsOf(d, C)
       /\ \E D \in FunctorTarget(d, F) \cap FunctorTarget(d, G) : m \in MorphismsOf(d, D)

C18_ComponentNeedsTypedChain ==
    \A nt \in NatTransIds, x \in ObjectIds, m \in MorphismIds :
       LET r == add_nt_component(db, nt, x, m) IN
       /\ r.res = "ok"
       /\ r.db # db => TypedChain(db, nt, x, m)
       /\ ~TypedChain(db, nt, x, m) => r.db = db

(***************************************************************************)
(* C19: in every reachable state, for a natural transformation whose       *)
(* functors F and G each have a source and a target category: when the     *)
(* source categories differ or the target categories differ, every list    *)
(* that validate_naturality can return is one diagnostic, with no message  *)
(* about a morphism.                                                       *)
(***************************************************************************)
C19_CategoriesChecked ==
    \A nt \in DOMAIN db.Natural_Transformation :
       \A F \in NatTransSource(db, nt), G \in NatTransTarget(db, nt) :
          (/\ FunctorSource(db, F) # {} /\ FunctorSource(db, G) # {}
           /\ FunctorTarget(db, F) # {} /\ FunctorTarget(db, G) # {}
           /\ \/ FunctorSource(db, F) # FunctorSource(db, G)
              \/ FunctorTarget(db, F) # FunctorTarget(db, G)) =>
             \A messages \in validate_naturality(db, nt) :
                /\ BagSum(messages, DOMAIN messages) = 1
                /\ \A m \in DOMAIN messages : m.f = ""

(***************************************************************************)
(* SpecRace: two connections to one store, outside transactions; each      *)
(* caller runs create_category statement by statement, and categories are  *)
(* deleted.                                                                *)
(***************************************************************************)
NextRace ==
    \/ \E w \in Writers, n \in Names : ScanCategories(w, n)
    \/ \E w \in Writers : CreateCategoryNode(w, MaxEntities)
    \/ \E c \in CategoryIds : DeleteCategory(c)

SpecRace == Init /\ [][NextRace]_vars

(***************************************************************************)
(* C20: two categories have the same name only after both callers have     *)
(* called create_category; as long as one caller alone has called it,      *)
(* category names are unique.  With two callers a state with two           *)
(* same-named categories is reached.                                       *)
(***************************************************************************)
SameNamedCategories ==
    \E c1, c2 \in DOMAIN db.Category :
       c1 # c2 /\ db.Category[c1].name = db.Category[c2].name

C20_RaceNeedsTwoWriters ==
    SameNamedCategories => \A w \in Writers : writers[w].called

(* Both callers passed the scan before either created, and the second CREATE has
   just left two categories of the same name. *)
C20_Witness ==
    /\ SameNamedCategories
    /\ last.op = "create_category"
    /\ last.res = "ok"
    /\ \A w \in Writers : writers[w].called

(***************************************************************************)
(* SpecFail: the natural transformation alpha of NtStore, with a store     *)
(* that can fail in any call: components are added and removed, alpha is   *)
(* validated, and any method's call can meet an exception of the store.    *)
(***************************************************************************)
NextFail ==
    \/ \E nt \in NatTransIds, x \in ObjectIds, m \in MorphismIds : AddNtComponent(nt, x, m)
    \/ \E nt \in NatTransIds, x \in ObjectIds : RemoveNtComponent(nt, x)
    \/ \E nt \in NatTransIds : ValidateNtStructure(nt)
    \/ \E op \in Methods : StoreFails(op)

SpecFail == InitNT /\ [][NextFail]_vars

(***************************************************************************)
(* C21: in every reachable state, a call of any method, the three          *)
(* validators included, in which the store raises an exception hands that  *)
(* failure to the caller as an exception, never as a returned value.       *)
(***************************************************************************)
C21_StoreFailurePropagates ==
    \A op \in Methods :
       (/\ last.op = op
        /\ last.res = OnStoreFailure(op, db).res
        /\ last.ret = OnStoreFailure(op, db).ret) => last.res # "ok"

(***************************************************************************)
(* SpecSchema: one connection, from the empty store; categories, objects   *)
(* and morphisms are created and deleted, and initialize_schema is called  *)
(* again at any time.                                                      *)
(***************************************************************************)
NextSchema ==
    \/ InitializeSchema
    \/ \E n \in Names : CreateCategory(n, "", MaxTxEntities)
    \/ \E c \in CategoryIds : DeleteCategory(c)
    \/ \E n \in Names, c \in CategoryIds : CreateObject(n, c, MaxTxEntities)
    \/ \E o \in ObjectIds : DeleteObject(o)
    \/ \E n \in Names, s \in ObjectIds, t \in ObjectIds, c \in CategoryIds :
          CreateMorphism(n, s, t, c, MaxTxEntities)

SpecSchema == Init /\ [][NextSchema]_vars

(***************************************************************************)
(* C22: in every reachable state, initialize_schema on the provisioned     *)
(* store raises no error, leaves exactly the tables that one call on a new *)
(* store creates, and leaves every stored entity, edge and key generator   *)
(* as it was.                                                              *)
(***************************************************************************)
C22_InitializeSchemaIdempotent ==
    LET r == initialize_schema(db) IN
    /\ r.res = "ok"
    /\ DOMAIN r.db = DOMAIN initialize_schema(Unprovisioned).db
    /\ r.db = db
    /\ initialize_schema(r.db) = r

(* initialize_schema has just been called on a store that holds a category, an
   object and a morphism, and has changed nothing. *)
C22_Witness ==
    /\ last.op = "initialize_schema"
    /\ last.res = "ok"
    /\ ~last.changed
    /\ DOMAIN db.Category # {}
    /\ DOMAIN db.Object # {}
    /\ DOMAIN db.Morphism # {}

(***************************************************************************)
(* SpecUnmap: the object mappings of two functors.  C has the objects X    *)
(* and Y, D has P and Q, F and G are functors from C to D, and F maps X to *)
(* P by two calls of add_functor_object_mapping.  Mappings are added and   *)
(* removed.                                                                *)
(***************************************************************************)
UnmapStore ==
    LET c0 == create_category(EmptyDb, "C", "").db
        c1 == create_category(c0, "D", "").db
        o0 == create_object(c1, "X", 0).db
        o1 == create_object(o0, "Y", 0).db
        o2 == create_object(o1, "P", 1).db
        o3 == create_object(o2, "Q", 1).db
        f0 == create_functor(o3, "F", 0, 1).db
        f1 == create_functor(f0, "G", 0, 1).db
        a0 == add_functor_object_mapping(f1, 0, 0, 2).db
        a1 == add_functor_object_mapping(a0, 0, 0, 2).db
    IN a1

InitUnmap ==
    /\ db = UnmapStore
    /\ snap = NoSnap
    /\ transaction_active = FALSE
    /\ begun = {}
    /\ writers = Idle
    /\ last = Returned("init", "ok", {}, NoneGone, FALSE)

NextUnmap ==
    \/ \E f \in FunctorIds, s \in ObjectIds, t \in ObjectIds : AddFunctorObjectMapping(f, s, t)
    \/ \E f \in FunctorIds, s \in ObjectIds : RemoveFunctorObjectMapping(f, s)

SpecUnmap == InitUnmap /\ [][NextUnmap]_vars

(***************************************************************************)
(* C23: in every reachable state, remove_functor_object_mapping(F, s)      *)
(* returns success and leaves a store in which                             *)
(* get_functor_object_mappings(F) has no entry with source s, has every    *)
(* entry of F from another source as before and no new entry, and every    *)
(* other functor's list is as before; nothing but mapping edges changes,   *)
(* and the store is unchanged when F has no mapping from s.                *)
(***************************************************************************)
C23_RemoveObjectMappingFrame ==
    \A F \in FunctorIds, s \in ObjectIds :
       LET r == remove_functor_object_mapping(db, F, s)
           before == get_functor_object_mappings(db, F)
           after == get_functor_object_mappings(r.db, F)
       IN /\ r.res = "ok"
          /\ \A row \in DOMAIN after : row.source_object_id # s
          /\ DOMAIN after = {row \in DOMAIN before : row.source_object_id # s}
          /\ \A row \in DOMAIN after : after[row] = before[row]
          /\ \A G \in FunctorIds \ {F} :
                get_functor_object_mappings(r.db, G) = get_functor_object_mappings(db, G)
          /\ r.db = [db EXCEPT !.functor_object_map = r.db.functor_object_map]
          /\ (\A row \in DOMAIN before : row.source_object_id # s) => r.db = db

(* remove_functor_object_mapping has just removed mappings of one functor, and
   another functor still maps an object that the first no longer maps. *)
C23_Witness ==
    /\ last.op = "remove_functor_object_mapping"
    /\ last.res = "ok"
    /\ last.changed
    /\ \E F \in DOMAIN db.Functor, G \in DOMAIN db.Functor, s \in DOMAIN db.Object :
          /\ F # G
          /\ \A row \in DOMAIN get_functor_object_mappings(db, F) : row.source_object_id # s
          /\ \E row \in DOMAIN get_functor_object_mappings(db, F) : row.source_object_id # s
          /\ \E row \in DOMAIN get_functor_object_mappings(db, G) : row.source_object_id = s

(***************************************************************************)
(* C24: in every state reachable by create_morphism, delete_object and     *)
(* delete_category, every morphism has a source object and a target        *)
(* object, both existing, and is listed with both.                         *)
(***************************************************************************)
C24_MorphismsHaveEndpoints ==
    /\ \A m \in DOMAIN db.Morphism :
          /\ SourceOf(db, m) # {}
          /\ TargetOf(db, m) # {}
          /\ SourceOf(db, m) \cup TargetOf(db, m) \subseteq DOMAIN db.Object
    /\ \A c \in DOMAIN db.Category : \A row \in get_morphisms_in_category(db, c) :
          row.source_object # {} /\ row.target_object # {}

(***************************************************************************)
(* SpecUnlinked: natural transformations that lose their links.  From      *)
(* LinkStore, a natural transformation is created between any two functors *)
(* or ids that name no functor, components are added and removed,          *)
(* categories are deleted, and the structure is validated.                 *)
(***************************************************************************)
NextUnlinked ==
    \/ \E f \in FunctorIds, g \in FunctorIds :
          CreateNaturalTransformation("alpha", f, g, Created(LinkStore) + MaxNew)
    \/ \E nt \in NatTransIds, x \in ObjectIds, m \in MorphismIds : AddNtComponent(nt, x, m)
    \/ \E nt \in NatTransIds, x \in ObjectIds : RemoveNtComponent(nt, x)
    \/ \E c \in CategoryIds : DeleteCategory(c)
    \/ \E nt \in NatTransIds : ValidateNtStructure(nt)

SpecUnlinked == InitLink /\ [][NextUnlinked]_vars

(***************************************************************************)
(* C25: in every reachable state, for an existing natural transformation   *)
(* nt that has no source functor, no target functor, no source category of *)
(* its source functor or no target category of its target functor,         *)
(* validate_nt_structure(nt) returns the one message that nt must be       *)
(* linked, whatever components nt has.                                     *)
(***************************************************************************)
Unlinked(d, nt) ==
    \/ UNION {FunctorSource(d, sf) : sf \in NatTransSource(d, nt)} = {}
    \/ UNION {FunctorTarget(d, tf) : tf \in NatTransTarget(d, nt)} = {}

C25_UnlinkedIsOneError ==
    \A nt \in DOMAIN db.Natural_Transformation :
       Unlinked(db, nt) =>
          validate_nt_structure(db, nt) = {BagAdd(EmptyBag, StructureError(Not_linked, {}))}

(* validate_nt_structure has just returned the one message for a natural
   transformation that has a component and whose source category was deleted. *)
C25_Witness ==
    /\ last.op = "validate_nt_structure"
    /\ last.ret = BagAdd(EmptyBag, StructureError(Not_linked, {}))
    /\ DOMAIN db.Category # 0 .. db.serial.Category - 1
    /\ \E nt \in DOMAIN db.Natural_Transformation :
          /\ Unlinked(db, nt)
          /\ NatTransSource(db, nt) # {}
          /\ NatTransTarget(db, nt) # {}
          /\ \E e \in DOMAIN db.nat_trans_components : e[1] = nt

(***************************************************************************)
(* C26: in every state reachable by adding and removing mappings and by    *)
(* delete_object and delete_category, every mapping edge joins existing    *)
(* entities, every object mapping listed for a functor F has its source    *)
(* object in F's source category and its target object in F's target       *)
(* category, and every morphism mapping listed for F has its source        *)
(* morphism in F's source category and its target morphism in F's target   *)
(* category.                                                               *)
(***************************************************************************)
C26_ListedMappingsTyped ==
    /\ \A e \in DOMAIN db.functor_object_map : {e[1], e[2]} \subseteq DOMAIN db.Object
    /\ \A e \in DOMAIN db.functor_morphism_map : {e[1], e[2]} \subseteq DOMAIN db.Morphism
    /\ \A F \in FunctorIds :
          /\ \A row \in DOMAIN get_functor_object_mappings(db, F) :
                ObjectMappingTyped(db, F, row.source_object_id, row.target_object_id)
          /\ \A row \in DOMAIN get_functor_morphism_mappings(db, F) :
                MorphismMappingTyped(db, F, row.source_morphism_id, row.target_morphism_id)

(* delete_object has just removed an object of the source category together with
   a morphism, and a functor still lists an object mapping. *)
C26_Witness ==
    /\ last.op = "delete_object"
    /\ last.gone.Object # {}
    /\ last.gone.Morphism # {}
    /\ \E F \in DOMAIN db.Functor : DOMAIN get_functor_object_mappings(db, F) # {}

(***************************************************************************)
(* C27: in every reachable state, get_nt_components(nt) lists exactly the  *)
(* components stored under nt: one row for every stored component of nt,   *)
(* and no row for a component stored under another natural transformation. *)
(***************************************************************************)
C27_ComponentsOfNtOnly ==
    \A nt \in DOMAIN db.Natural_Transformation :
       LET stored == {e \in DOMAIN db.nat_trans_components : e[1] = nt}
           listed == get_nt_components(db, nt)
       IN /\ \A row \in DOMAIN listed :
                \E e \in stored : e[3] = row.at_object_id /\ e[2] = row.morphism_id
          /\ BagSum(listed, DOMAIN listed) = BagSum(db.nat_trans_components, stored)

(***************************************************************************)
(* C28: in every reachable state, creating a further natural               *)
(* transformation, between any functors or ids that name no functor,       *)
(* leaves the lists that validate_nt_structure(nt) and                     *)
(* validate_naturality(nt) can return for an existing nt as they were; and *)
(* for an id that names no natural transformation both return the one      *)
(* message 'Natural transformation not found'.                             *)
(***************************************************************************)
C28_ValidationIsLocal ==
    /\ \A nt \in DOMAIN db.Natural_Transformation : \A f \in FunctorIds, g \in FunctorIds :
          LET further == create_natural_transformation(db, "beta", f, g).db IN
          /\ validate_nt_structure(further, nt) = validate_nt_structure(db, nt)
          /\ validate_naturality(further, nt) = validate_naturality(db, nt)
    /\ \A nt \in NatTransIds \ DOMAIN db.Natural_Transformation :
          /\ validate_nt_structure(db, nt) =
                {BagAdd(EmptyBag, StructureError("Natural transformation not found", {}))}
          /\ validate_naturality(db, nt) = {Diagnostic("Natural transformation not found")}

ShapeStore ==
    LET c0 == create_category(EmptyDb, "C", "").db
        c1 == create_category(c0, "D", "").db
        o0 == create_object(c1, "X", 0).db
        o1 == create_object(o0, "P", 1).db
        o2 == create_object(o1, "Q", 1).db
        m0 == create_morphism(o2, "f", 0, 0, 0).db
        m1 == create_morphism(m0, "e", 1, 1, 1).db
        m2 == create_morphism(m1, "u", 2, 2, 1).db
        f0 == create_functor(m2, "F", 0, 1).db
        f1 == create_functor(f0, "G", 0, 1).db
        n0 == create_natural_transformation(f1, "alpha", 0, 1).db
    IN n0

InitShape ==
    /\ db = ShapeStore
    /\ snap = NoSnap
    /\ transaction_active = FALSE
    /\ begun = {}
    /\ writers = Idle
    /\ last = Returned("init", "ok", {}, NoneGone, FALSE)

NextShape ==
    \/ \E nt \in NatTransIds, x \in ObjectIds, m \in MorphismIds : AddNtComponent(nt, x, m)
    \/ \E nt \in NatTransIds, x \in ObjectIds : RemoveNtComponent(nt, x)
    \/ \E f \in FunctorIds, s \in MorphismIds, t \in MorphismIds :
          AddFunctorMorphismMapping(f, s, t)
    \/ \E f \in FunctorIds, s \in MorphismIds : RemoveFunctorMorphismMapping(f, s)
    \/ \E o \in ObjectIds, n \in {"P", "Q"} : UpdateObject(o, {n})
    \/ \E nt \in NatTransIds : ValidateNaturality(nt)

SpecShape == InitShape /\ [][NextShape]_vars

(***************************************************************************)
(* C30: in every reachable state, when a list that validate_naturality(nt) *)
(* can return reports the square for f as well-typed, nt has components    *)
(* alpha_X and alpha_Y and its functors have images F(f) and G(f) whose    *)
(* corners are the same objects: G(f)'s source is alpha_X's target, G(f)'s *)
(* target is alpha_Y's target, alpha_Y's source is F(f)'s target and       *)
(* alpha_X's source is F(f)'s source, by object id.                        *)
(***************************************************************************)
C30_WellTypedByIdentity ==
    \A nt \in DOMAIN db.Natural_Transformation :
       \A messages \in validate_naturality(db, nt) :
          \A msg \in {x \in DOMAIN messages : x.msg = Well_typed} :
             \E F \in NatTransSource(db, nt), G \in NatTransTarget(db, nt) :
                \E f \in {x \in DOMAIN db.Morphism : db.Morphism[x].name = msg.f} :
                   \E X \in SourceOf(db, f), Y \in TargetOf(db, f) :
                      \E aX \in ComponentsAt(db, nt, X), aY \in ComponentsAt(db, nt, Y),
                         Ff \in MappedTo(db, F, f), Gf \in MappedTo(db, G, f) :
                         /\ SourceOf(db, Gf) = TargetOf(db, aX)
                         /\ TargetOf(db, Gf) = TargetOf(db, aY)
                         /\ SourceOf(db, aY) = TargetOf(db, Ff)
                         /\ SourceOf(db, aX) = SourceOf(db, Ff)

=============================================================================
